---- MODULE Spec2Model ----
(***************************************************************************)
(* Model of go-merkletree (package gomerkletree, src/merkletree.go lines   *)
(* 190-414, and package hashing, lines 416-435): construction of the tree  *)
(* with promotion of the odd node, the tree facade (Root, Len, Verify,     *)
(* VerifyExists, Proof) and the standalone VerifyProof.                    *)
(*                                                                         *)
(* A byte slice is a sequence of naturals; the nil slice is <<>>.  A       *)
(* digest is one opaque block that stands for its preimage, which makes    *)
(* SHA-256 collision-free: a digest is a sequence of length one whose      *)
(* single element is the hashed byte string.  A node pointer is an index   *)
(* into the heap `nodes`; the nil pointer is 0.                            *)
(***************************************************************************)
EXTENDS Integers, Sequences, FiniteSets, TLC

VARIABLES data, nodes, level, leaves, n, m, pc, proof, proofItem, ret

vars == <<data, nodes, level, leaves, n, m, pc, proof, proofItem, ret>>

(* ------------------------------ bounds --------------------------------- *)

MaxLeaves == 4
NumItems == 3
MaxProofLen == 2

(* Items: the one-byte strings "a", "b", "c", ... *)
Items == { <<96 + i>> : i \in 1..NumItems }

SeqUpTo(S, k) == UNION { [1..j -> S] : j \in 0..k }

(* ------------------------------ hashing -------------------------------- *)

HashSHA256(b) == << b >>

HashLeaf(l) == HashSHA256(<<0>> \o l)

HashInternal(l, r) == HashSHA256((<<1>> \o l) \o r)

(* A digest that is the hash of neither a leaf nor an internal node. *)
JunkHash == HashSHA256(<<2>>)

(* ------------------------------ values --------------------------------- *)

NoErr == "<nil>"
ErrNotInTree == "not in tree"
ErrUnableToVerify == "unable to verify tree"
ErrNilTree == "nil tree"
ErrNoProof == "no proof/hash strategy"
ErrLengths == "proof lengths mismatch"
ErrRoot == "root does not match"

NilBytes == << >>

Node(h, l, r, p) == [h |-> h, left |-> l, right |-> r, parent |-> p]

NilTree == [nil |-> TRUE, root |-> 0, n |-> 0, leaves |-> << >>, hashStrategy |-> "nil"]

NilProof == [nil |-> TRUE, root |-> NilBytes, siblings |-> << >>, left |-> << >>,
             hashStrategy |-> "nil"]

NoRet == [op |-> "none", arg |-> << >>, bytes |-> NilBytes, int |-> 0, bool |-> FALSE,
          node |-> 0, err |-> NoErr, panic |-> FALSE, hashes |-> 0]

(* ------------------------------ Node ----------------------------------- *)

(* verify without the descent into the children *)
verifyShallow(ns, id) ==
    IF ns[id].left # 0 /\ ns[id].right # 0
    THEN ns[id].h = HashInternal(ns[ns[id].left].h, ns[ns[id].right].h)
    ELSE ns[id].left = 0 /\ ns[id].right = 0

RECURSIVE verify(_, _)
verify(ns, id) ==
    IF ns[id].left # 0 /\ ns[id].right # 0
    THEN /\ ns[id].h = HashInternal(ns[ns[id].left].h, ns[ns[id].right].h)
         /\ verify(ns, ns[id].left)
         /\ verify(ns, ns[id].right)
    ELSE ns[id].left = 0 /\ ns[id].right = 0

(* isLeft by comparing hashes instead of pointers *)
isLeftByHash(ns, id) == ns[id].parent # 0 /\ ns[id].h = ns[ns[ns[id].parent].left].h

isLeft(ns, id) == ns[id].parent # 0 /\ ns[ns[id].parent].left = id

(* ------------------------------ build ---------------------------------- *)

(* The loop body of the duplicating scheme: the odd last node is paired    *)
(* with itself.                                                            *)
ReduceLevelDup(ns, lv) ==
    LET pairs == (Len(lv) + 1) \div 2
        base == Len(ns)
        rightOf(i) == IF 2 * i <= Len(lv) THEN lv[2 * i] ELSE lv[Len(lv)]
        pos(id) == CHOOSE i \in 1..Len(lv) : lv[i] = id
        parentRec(i) == Node(HashInternal(ns[lv[2 * i - 1]].h, ns[rightOf(i)].h),
                             lv[2 * i - 1], rightOf(i), 0)
        heap == [id \in 1..(base + pairs) |->
                    IF id > base THEN parentRec(id - base)
                    ELSE IF id \in { lv[i] : i \in 1..Len(lv) }
                         THEN [ns[id] EXCEPT !.parent = base + ((pos(id) + 1) \div 2)]
                         ELSE ns[id]]
    IN [nodes |-> heap, level |-> [i \in 1..pairs |-> base + i]]

(* A loop body that pairs only the first two nodes of the level and       *)
(* carries all the others over.                                            *)
ReduceLevelChain(ns, lv) ==
    LET base == Len(ns)
        parentRec == Node(HashInternal(ns[lv[1]].h, ns[lv[2]].h), lv[1], lv[2], 0)
        heap == [id \in 1..(base + 1) |->
                    IF id > base THEN parentRec
                    ELSE IF id \in { lv[1], lv[2] }
                         THEN [ns[id] EXCEPT !.parent = base + 1]
                         ELSE ns[id]]
    IN [nodes |-> heap, level |-> << base + 1 >> \o SubSeq(lv, 3, Len(lv))]

(* One pass of the loop body: pairs of the level get a parent, the odd     *)
(* last node is appended to the next level as it is.                       *)
ReduceLevel(ns, lv) ==
    LET pairs == Len(lv) \div 2
        base == Len(ns)
        pos(id) == CHOOSE i \in 1..(2 * pairs) : lv[i] = id
        paired == { lv[i] : i \in 1..(2 * pairs) }
        parentRec(i) == Node(HashInternal(ns[lv[2 * i - 1]].h, ns[lv[2 * i]].h),
                             lv[2 * i - 1], lv[2 * i], 0)
        heap == [id \in 1..(base + pairs) |->
                    IF id > base THEN parentRec(id - base)
                    ELSE IF id \in paired
                         THEN [ns[id] EXCEPT !.parent = base + ((pos(id) + 1) \div 2)]
                         ELSE ns[id]]
        next == [i \in 1..pairs |-> base + i]
                  \o (IF Len(lv) % 2 # 0 THEN << lv[Len(lv)] >> ELSE << >>)
    IN [nodes |-> heap, level |-> next]

(* the count taken from the length of the next level *)
NodeCountNext(cnt, lv) == cnt + ((Len(lv) + 1) \div 2)

(* n++ once for every parent made from the level. *)
NodeCount(cnt, lv) == cnt + (Len(lv) \div 2)

BuildMerkleTree(d) ==
    /\ pc = "idle"
    /\ data' = d
    /\ IF Len(d) = 0
       THEN /\ m' = NilTree
            /\ pc' = "built"
            /\ UNCHANGED <<nodes, level, leaves, n>>
       ELSE /\ nodes' = [i \in 1..Len(d) |-> Node(HashLeaf(d[i]), 0, 0, 0)]
            /\ level' = [i \in 1..Len(d) |-> i]
            /\ leaves' = [i \in 1..Len(d) |-> i]
            /\ n' = Len(d)
            /\ pc' = "building"
            /\ UNCHANGED m
    /\ UNCHANGED <<proof, proofItem, ret>>

BuildLevel ==
    /\ pc = "building"
    /\ Len(level) > 1
    /\ LET r == ReduceLevel(nodes, level)
       IN /\ nodes' = r.nodes
          /\ level' = r.level
          /\ n' = NodeCount(n, level)
    /\ UNCHANGED <<data, leaves, m, pc, proof, proofItem, ret>>

BuildReturn ==
    /\ pc = "building"
    /\ Len(level) = 1
    /\ m' = [nil |-> FALSE, root |-> level[1], n |-> n, leaves |-> leaves,
             hashStrategy |-> "default"]
    /\ pc' = "built"
    /\ UNCHANGED <<data, nodes, level, leaves, n, proof, proofItem, ret>>

(* ------------------------------ facade --------------------------------- *)

RootOf(t, ns) == IF t.nil \/ t.root = 0 THEN NilBytes ELSE ns[t.root].h

(* Len answering the number of leaves *)
LenOfLeaves(t) == IF t.nil THEN 0 - 1 ELSE Len(t.leaves)

LenOf(t) == IF t.nil THEN 0 - 1 ELSE t.n

VerifyTree(t, ns) ==
    /\ ~t.nil
    /\ t.root # 0
    /\ t.hashStrategy # "nil"
    /\ verify(ns, t.root)

(* VerifyExists without the call of Verify *)
VerifyExistsNoVerify(t, ns, x) ==
    IF t.nil
    THEN [node |-> 0, err |-> NoErr, panic |-> TRUE]
    ELSE LET hash == HashLeaf(x)
             hits == { i \in 1..Len(t.leaves) : ns[t.leaves[i]].h = hash }
             last == CHOOSE i \in hits : \A j \in hits : j <= i
         IN IF hits = {}
            THEN [node |-> 0, err |-> ErrNotInTree, panic |-> FALSE]
            ELSE [node |-> t.leaves[last], err |-> NoErr, panic |-> FALSE]

VerifyExists(t, ns, x) ==
    IF t.nil
    THEN [node |-> 0, err |-> NoErr, panic |-> TRUE]
    ELSE LET hash == HashLeaf(x)
             hits == { i \in 1..Len(t.leaves) : ns[t.leaves[i]].h = hash }
             last == CHOOSE i \in hits : \A j \in hits : j <= i
             node == IF hits = {} THEN 0 ELSE t.leaves[last]
         IN IF hits = {}
            THEN [node |-> node, err |-> ErrNotInTree, panic |-> FALSE]
            ELSE IF ~VerifyTree(t, ns)
                 THEN [node |-> node, err |-> ErrUnableToVerify, panic |-> FALSE]
                 ELSE [node |-> node, err |-> NoErr, panic |-> FALSE]

(* The loop of Proof: from node up to the root, one entry per step. *)
RECURSIVE ProofWalk(_, _)
ProofWalk(ns, node) ==
    IF ns[node].parent = 0
    THEN [siblings |-> << >>, left |-> << >>]
    ELSE LET par == ns[node].parent
             rest == ProofWalk(ns, par)
         IN IF isLeft(ns, node)
            THEN [siblings |-> << ns[ns[par].right].h >> \o rest.siblings,
                  left |-> << FALSE >> \o rest.left]
            ELSE [siblings |-> << ns[ns[par].left].h >> \o rest.siblings,
                  left |-> << TRUE >> \o rest.left]

ProofOf(t, ns, x) ==
    IF t.nil
    THEN [proof |-> NilProof, err |-> ErrNilTree]
    ELSE LET ve == VerifyExists(t, ns, x)
         IN IF ve.err # NoErr
            THEN [proof |-> NilProof, err |-> ve.err]
            ELSE LET w == ProofWalk(ns, ve.node)
                 IN [proof |-> [nil |-> FALSE, root |-> RootOf(t, ns),
                                siblings |-> w.siblings, left |-> w.left,
                                hashStrategy |-> t.hashStrategy],
                     err |-> NoErr]

(* ------------------------------ verifier ------------------------------- *)

(* the step with the direction flag ignored *)
StepHashNoFlag(isLeftSibling, sibling, hash) == HashInternal(hash, sibling)

(* One iteration of the loop of VerifyProof. *)
StepHash(isLeftSibling, sibling, hash) ==
    IF isLeftSibling THEN HashInternal(sibling, hash) ELSE HashInternal(hash, sibling)

RECURSIVE ProofHash(_, _, _)
ProofHash(x, p, i) ==
    IF i = 0 THEN HashLeaf(x)
    ELSE StepHash(p.left[i], p.siblings[i], ProofHash(x, p, i - 1))

(* VerifyProof without the comparison with the root *)
VerifyProofNoRoot(x, p) ==
    IF p.nil \/ p.hashStrategy = "nil"
    THEN [err |-> ErrNoProof, hashes |-> 0]
    ELSE IF Len(p.siblings) # Len(p.left)
         THEN [err |-> ErrLengths, hashes |-> 0]
         ELSE [err |-> NoErr, hashes |-> 1 + Len(p.left)]

(* err: the error returned; hashes: the number of hashes computed. *)
VerifyProof(x, p) ==
    IF p.nil \/ p.hashStrategy = "nil"
    THEN [err |-> ErrNoProof, hashes |-> 0]
    ELSE IF Len(p.siblings) # Len(p.left)
         THEN [err |-> ErrLengths, hashes |-> 0]
         ELSE IF ProofHash(x, p, Len(p.left)) # p.root
              THEN [err |-> ErrRoot, hashes |-> 1 + Len(p.left)]
              ELSE [err |-> NoErr, hashes |-> 1 + Len(p.left)]

(* ------------------------------ calls ---------------------------------- *)

CallRoot ==
    /\ pc = "built"
    /\ ret' = [NoRet EXCEPT !.op = "Root", !.bytes = RootOf(m, nodes)]
    /\ UNCHANGED <<data, nodes, level, leaves, n, m, pc, proof, proofItem>>

CallLen ==
    /\ pc = "built"
    /\ ret' = [NoRet EXCEPT !.op = "Len", !.int = LenOf(m)]
    /\ UNCHANGED <<data, nodes, level, leaves, n, m, pc, proof, proofItem>>

CallVerify ==
    /\ pc = "built"
    /\ ret' = [NoRet EXCEPT !.op = "Verify", !.bool = VerifyTree(m, nodes)]
    /\ UNCHANGED <<data, nodes, level, leaves, n, m, pc, proof, proofItem>>

CallVerifyExists(x) ==
    /\ pc = "built"
    /\ LET r == VerifyExists(m, nodes, x)
       IN ret' = [NoRet EXCEPT !.op = "VerifyExists", !.arg = x, !.node = r.node,
                               !.err = r.err, !.panic = r.panic]
    /\ UNCHANGED <<data, nodes, level, leaves, n, m, pc, proof, proofItem>>

CallProof(x) ==
    /\ pc = "built"
    /\ LET r == ProofOf(m, nodes, x)
       IN /\ ret' = [NoRet EXCEPT !.op = "Proof", !.arg = x, !.err = r.err]
          /\ proof' = r.proof
          /\ proofItem' = IF r.err = NoErr THEN x ELSE << >>
    /\ UNCHANGED <<data, nodes, level, leaves, n, m, pc>>

(* VerifyProof on the proof the caller holds; it needs no tree. *)
CallVerifyProof(y) ==
    /\ LET r == VerifyProof(y, proof)
       IN ret' = [NoRet EXCEPT !.op = "VerifyProof", !.arg = y, !.err = r.err,
                               !.hashes = r.hashes]
    /\ UNCHANGED <<data, nodes, level, leaves, n, m, pc, proof, proofItem>>

(* A test with access to the internals overwrites the stored hash of one   *)
(* node of a tree that verifies, before it makes its calls on the tree.    *)
CorruptHashes == { HashLeaf(<<97>>), HashLeaf(<<98>>), JunkHash }

Corrupt(id, h) ==
    /\ pc = "built"
    /\ ret.op = "none"
    /\ proof.nil
    /\ VerifyTree(m, nodes)
    /\ id \in DOMAIN nodes
    /\ h # nodes[id].h
    /\ nodes' = [nodes EXCEPT ![id].h = h]
    /\ ret' = NoRet
    /\ UNCHANGED <<data, level, leaves, n, m, pc, proof, proofItem>>

(* A caller makes a proof by hand, as the test of the invalid proof does. *)
ForgedHashes == { HashLeaf(<<97>>), HashLeaf(<<98>>),
                  HashInternal(HashLeaf(<<97>>), HashLeaf(<<98>>)) }

ForgedProofs ==
    [nil : {FALSE}, root : ForgedHashes, siblings : SeqUpTo(ForgedHashes, MaxProofLen),
     left : SeqUpTo(BOOLEAN, MaxProofLen), hashStrategy : {"nil", "default"}]

ForgeProof(p) ==
    /\ proof = NilProof
    /\ ret.op = "none"
    /\ proof' = p
    /\ UNCHANGED <<data, nodes, level, leaves, n, m, pc, proofItem, ret>>

(* ------------------------------ system --------------------------------- *)

Init ==
    /\ data = << >>
    /\ nodes = << >>
    /\ level = << >>
    /\ leaves = << >>
    /\ n = 0
    /\ m = NilTree
    /\ pc = "idle"
    /\ proof = NilProof
    /\ proofItem = << >>
    /\ ret = NoRet

Next ==
    \/ \E d \in SeqUpTo(Items, MaxLeaves) : BuildMerkleTree(d)
    \/ BuildLevel
    \/ BuildReturn
    \/ CallRoot
    \/ CallLen
    \/ CallVerify
    \/ \E x \in Items : CallVerifyExists(x)
    \/ \E x \in Items : CallProof(x)
    \/ \E y \in Items : CallVerifyProof(y)
    \/ \E id \in DOMAIN nodes : \E h \in CorruptHashes : Corrupt(id, h)

Spec == Init /\ [][Next]_vars

NextForged ==
    \/ \E p \in ForgedProofs : ForgeProof(p)
    \/ \E y \in Items : CallVerifyProof(y)

SpecForged == Init /\ [][NextForged]_vars

(* ------------------------------ properties ----------------------------- *)

Built == pc = "built" /\ ~m.nil

InTree(x) == \E i \in 1..Len(data) : data[i] = x

IsInternal(id) == nodes[id].left # 0 \/ nodes[id].right # 0

(* The hash a node has when the tree comes out of the build. *)
RECURSIVE BuiltHash(_)
BuiltHash(id) ==
    IF IsInternal(id)
    THEN HashInternal(BuiltHash(nodes[id].left), BuiltHash(nodes[id].right))
    ELSE HashLeaf(data[CHOOSE i \in 1..Len(m.leaves) : m.leaves[i] = id])

Changed == { id \in DOMAIN nodes : nodes[id].h # BuiltHash(id) }

AsBuilt == Built /\ Changed = {}

(* C1: round trip.  On the tree as built from a non-empty sequence, Proof  *)
(* of an item of the sequence returns a proof and no error, and VerifyProof *)
(* of that item with that proof returns no error.                          *)
C1_RoundTrip ==
    /\ (ret.op = "Proof" /\ AsBuilt /\ InTree(ret.arg))
          => (ret.err = NoErr /\ ~proof.nil)
    /\ (ret.op = "VerifyProof" /\ ~proof.nil /\ InTree(proofItem) /\ ret.arg = proofItem)
          => ret.err = NoErr

C1_Witness ==
    /\ ret.op = "VerifyProof"
    /\ ~proof.nil
    /\ Len(data) = 3
    /\ data[1] = data[2]
    /\ proofItem = data[1]
    /\ ret.arg = proofItem
    /\ Len(proof.left) = 2
    /\ ret.err = NoErr

(* C2: tamper detection.  VerifyProof of an item y with the proof made for *)
(* an item x of the tree, y different from x, fails with "root does not    *)
(* match".                                                                 *)
C2_Tamper ==
    (ret.op = "VerifyProof" /\ ~proof.nil /\ InTree(proofItem) /\ ret.arg # proofItem)
        => ret.err = ErrRoot

C2_Witness ==
    /\ ret.op = "VerifyProof"
    /\ ~proof.nil
    /\ InTree(proofItem)
    /\ InTree(ret.arg)
    /\ ret.arg # proofItem
    /\ Len(proof.siblings) >= 1
    /\ ret.err = ErrRoot

(* C3 as stated: Verify is true on the tree as built, and false once the   *)
(* stored hash of any one node differs, whatever the size of the tree.     *)
C3_Original ==
    (ret.op = "Verify" /\ Built)
        => /\ (Changed = {} => ret.bool)
           /\ (Cardinality(Changed) = 1 => ~ret.bool)

(* C3 amended: Verify is true on the tree as built; with the stored hash   *)
(* of one node changed it is false when the tree has two leaves or more,   *)
(* and still true when the tree is a single leaf.                          *)
C3_Integrity ==
    (ret.op = "Verify" /\ Built)
        => /\ (Changed = {} => ret.bool)
           /\ (Cardinality(Changed) = 1 /\ Len(data) >= 2 => ~ret.bool)
           /\ (Len(data) = 1 => ret.bool)

C3_Witness ==
    /\ ret.op = "Verify"
    /\ Built
    /\ Len(data) = 3
    /\ \E id \in Changed : Changed = {id} /\ ~IsInternal(id)
    /\ ~ret.bool

(* The nodes that have id as their left or right child. *)
ParentsOf(id) == { q \in DOMAIN nodes : nodes[q].left = id \/ nodes[q].right = id }

(* C4: promotion, not duplication.  A pass over a level of odd length puts *)
(* the last node of the level, untouched, at the end of the next level and *)
(* makes one node per pair only; no node has one node as both children; no *)
(* node has two parents; for three items the proof of the third is the one *)
(* sibling HashInternal(HashLeaf(first), HashLeaf(second)) and holds no    *)
(* hash equal to the leaf hash of the third.                               *)
C4_PromotionStep ==
    (pc = "building" /\ Len(level) > 1 /\ Len(level) % 2 = 1 /\ level' # level)
        => LET last == level[Len(level)]
           IN /\ Len(level') = (Len(level) \div 2) + 1
              /\ level'[Len(level')] = last
              /\ nodes'[last] = nodes[last]
              /\ Len(nodes') = Len(nodes) + (Len(level) \div 2)

C4_Shape ==
    /\ \A id \in DOMAIN nodes :
          /\ (IsInternal(id) => nodes[id].left # nodes[id].right)
          /\ Cardinality(ParentsOf(id)) <= 1
    /\ (Built /\ Len(data) = 3 /\ ret.op = "Proof" /\ ret.arg = data[3] /\ ret.err = NoErr)
          => /\ proof.siblings
                   = << HashInternal(HashLeaf(data[1]), HashLeaf(data[2])) >>
             /\ \A i \in 1..Len(proof.siblings) : proof.siblings[i] # HashLeaf(data[3])

C4_Promotion == [](C4_Shape) /\ [][C4_PromotionStep]_vars

C4_Witness ==
    /\ Built
    /\ Len(data) = 3
    /\ ret.op = "Proof"
    /\ ret.arg = data[3]
    /\ ret.err = NoErr
    /\ Len(proof.siblings) = 1
    /\ nodes[m.leaves[3]].parent = m.root

IsPow2(k) == \E e \in 0..k : 2 ^ e = k

(* Some level of the build from k leaves has an odd length above one. *)
RECURSIVE Promotes(_)
Promotes(k) == k > 1 /\ (k % 2 = 1 \/ Promotes((k + 1) \div 2))

(* C5 as stated: Len() is 2n - 1 exactly when n is a power of two, and is  *)
(* below 2n - 1 whenever a node is promoted during the build.              *)
C5_Original ==
    (ret.op = "Len" /\ Built)
        => /\ (ret.int = 2 * Len(data) - 1) <=> IsPow2(Len(data))
           /\ Promotes(Len(data)) => ret.int < 2 * Len(data) - 1

(* C5 amended: Len() is 2n - 1 for every n >= 1, a power of two or not,    *)
(* promotion or not.                                                       *)
C5_NodeCount ==
    (ret.op = "Len" /\ Built) => ret.int = 2 * Len(data) - 1

C5_Witness ==
    /\ ret.op = "Len"
    /\ Built
    /\ Len(data) = 3
    /\ Promotes(Len(data))
    /\ ret.int = 5

RECURSIVE Reachable(_)
Reachable(id) ==
    IF id = 0 THEN {}
    ELSE {id} \cup Reachable(nodes[id].left) \cup Reachable(nodes[id].right)

(* C6: Len() is the number of nodes of the tree: the number of distinct    *)
(* nodes reachable from the root, which is the n leaves plus the internal  *)
(* nodes created; 3 for two items and 5 for three.                         *)
C6_LenCountsNodes ==
    (ret.op = "Len" /\ Built)
        => /\ ret.int = Cardinality(Reachable(m.root))
           /\ ret.int = Len(data) + Cardinality({ id \in DOMAIN nodes : IsInternal(id) })
           /\ (Len(data) = 2 => ret.int = 3)
           /\ (Len(data) = 3 => ret.int = 5)

C6_Witness ==
    /\ ret.op = "Len"
    /\ Built
    /\ Len(data) = 4
    /\ Cardinality(Reachable(m.root)) = 7
    /\ ret.int = 7

(* C7: the build from the empty sequence returns the nil tree, and on the  *)
(* nil tree Root returns nil, Len -1, Verify false, VerifyExists and Proof *)
(* an error, none of them with a panic.                                    *)
C7_AbsentTree ==
    /\ (pc = "built" /\ Len(data) = 0) => m.nil
    /\ (pc = "built" /\ m.nil)
          => /\ ~ret.panic
             /\ (ret.op = "Root" => ret.bytes = NilBytes)
             /\ (ret.op = "Len" => ret.int = 0 - 1)
             /\ (ret.op = "Verify" => ~ret.bool)
             /\ (ret.op \in {"VerifyExists", "Proof"} => ret.err # NoErr)

(* C8: VerifyProof of a proof whose sibling sequence and direction         *)
(* sequence differ in length fails with "proof lengths mismatch" before a  *)
(* hash is computed, with or without a hash strategy in the proof.         *)
C8_Malformed ==
    (ret.op = "VerifyProof" /\ ~proof.nil /\ Len(proof.siblings) # Len(proof.left))
        => (ret.err = ErrLengths /\ ret.hashes = 0)

(* All internal nodes carry the hash of their two children. *)
Consistent ==
    \A id \in DOMAIN nodes :
        IsInternal(id) =>
            nodes[id].h = HashInternal(nodes[nodes[id].left].h, nodes[nodes[id].right].h)

LeafHit(x) == \E i \in 1..Len(m.leaves) : nodes[m.leaves[i]].h = HashLeaf(x)

(* C9: on the tree as built, VerifyExists(x) returns no error and a leaf   *)
(* whose hash is HashLeaf(x) exactly when x is an item of the sequence;    *)
(* without a leaf of that hash it fails with "not in tree", corrupt tree   *)
(* or not; with such a leaf on a tree that does not verify it fails with   *)
(* "unable to verify tree".                                                *)
C9_VerifyExists ==
    (ret.op = "VerifyExists" /\ Built)
        => LET found == /\ ret.err = NoErr
                        /\ \E i \in 1..Len(m.leaves) : m.leaves[i] = ret.node
                        /\ nodes[ret.node].h = HashLeaf(ret.arg)
           IN /\ (AsBuilt => (found <=> InTree(ret.arg)))
              /\ (~LeafHit(ret.arg) => ret.err = ErrNotInTree)
              /\ (LeafHit(ret.arg) /\ ~Consistent => ret.err = ErrUnableToVerify)
              /\ (ret.err = NoErr => found)

C9_Witness ==
    /\ ret.op = "VerifyExists"
    /\ Built
    /\ InTree(ret.arg)
    /\ LeafHit(ret.arg)
    /\ ~Consistent
    /\ ret.node # 0
    /\ ret.err = ErrUnableToVerify

(* The leaf VerifyExists finds for x on the tree as built: the last leaf   *)
(* of an item with the bytes of x.                                         *)
LeafOf(x) ==
    m.leaves[CHOOSE i \in 1..Len(data) :
                 data[i] = x /\ \A j \in 1..Len(data) : data[j] = x => j <= i]

(* The path entries from node id up to the root, by the child links. *)
RECURSIVE PathEntries(_)
PathEntries(id) ==
    IF ParentsOf(id) = {} THEN << >>
    ELSE LET q == CHOOSE r \in ParentsOf(id) : TRUE
         IN << IF nodes[q].right = id
               THEN [sibling |-> nodes[nodes[q].left].h, left |-> TRUE]
               ELSE [sibling |-> nodes[nodes[q].right].h, left |-> FALSE] >>
            \o PathEntries(q)

ItemA == << 97 >>
ItemB == << 98 >>
ItemC == << 99 >>

(* C10: the proof of an item x of the tree has root = Root() and, from the *)
(* leaf of x upwards, one entry per path node below the root: the hash of  *)
(* the sibling, flagged true when the path node is the right child and     *)
(* false when it is the left child, also with equal items in the tree.     *)
(* For a, b, c the proofs are [HashLeaf(b), HashLeaf(c)] [false, false];   *)
(* [HashLeaf(a), HashLeaf(c)] [true, false]; [HashInternal(HashLeaf(a),    *)
(* HashLeaf(b))] [true].                                                   *)
C10_ProofConvention ==
    (ret.op = "Proof" /\ AsBuilt /\ InTree(ret.arg))
        => LET path == PathEntries(LeafOf(ret.arg))
           IN /\ ret.err = NoErr
              /\ proof.root = nodes[m.root].h
              /\ proof.siblings = [i \in 1..Len(path) |-> path[i].sibling]
              /\ proof.left = [i \in 1..Len(path) |-> path[i].left]
              /\ (data = << ItemA, ItemB, ItemC >> /\ ret.arg = ItemA)
                    => /\ proof.siblings = << HashLeaf(ItemB), HashLeaf(ItemC) >>
                       /\ proof.left = << FALSE, FALSE >>
              /\ (data = << ItemA, ItemB, ItemC >> /\ ret.arg = ItemB)
                    => /\ proof.siblings = << HashLeaf(ItemA), HashLeaf(ItemC) >>
                       /\ proof.left = << TRUE, FALSE >>
              /\ (data = << ItemA, ItemB, ItemC >> /\ ret.arg = ItemC)
                    => /\ proof.siblings
                             = << HashInternal(HashLeaf(ItemA), HashLeaf(ItemB)) >>
                       /\ proof.left = << TRUE >>

C10_Witness ==
    /\ ret.op = "Proof"
    /\ AsBuilt
    /\ Len(data) = 2
    /\ data[1] = data[2]
    /\ ret.arg = data[2]
    /\ ret.err = NoErr
    /\ proof.left = << TRUE >>

(* The least e with 2^e >= k. *)
CeilLog2(k) == CHOOSE e \in 0..k : 2 ^ e >= k /\ (e = 0 \/ 2 ^ (e - 1) < k)

(* C11: the proof Proof returns for an item of a tree built from n items   *)
(* has as many siblings as direction flags, at most ceil(log2(n)) of them  *)
(* (none for one item), promotion or not.                                  *)
C11_ProofSize ==
    (ret.op = "Proof" /\ Built /\ ret.err = NoErr)
        => /\ ~proof.nil
           /\ Len(proof.siblings) = Len(proof.left)
           /\ Len(proof.siblings) <= CeilLog2(Len(data))
           /\ (Len(data) = 1 => Len(proof.siblings) = 0)

C11_Witness ==
    /\ ret.op = "Proof"
    /\ AsBuilt
    /\ Len(data) = 3
    /\ data[1] # data[3]
    /\ ret.arg = data[1]
    /\ ret.err = NoErr
    /\ Len(proof.siblings) = 2
    /\ Len(proof.left) = 2
    /\ nodes[m.leaves[3]].parent = m.root

====
